---- MODULE Spec2Model ----
(***************************************************************************)
(* NaviLang core: the lexer (lexer/mod.rs, lexer/tokens.rs), the position  *)
(* and span types, and the ErrorCollector (error.rs).                      *)
(*                                                                         *)
(* Source text is a sequence of characters; a character is a one-letter    *)
(* string, except "U+00E9", which stands for a character whose UTF-8       *)
(* encoding is two bytes long.  Offsets count bytes, columns count         *)
(* characters, as in the source (str::len against str::chars).             *)
(***************************************************************************)
EXTENDS Integers, Sequences, FiniteSets, TLC

\* ------------------------------------------------------------ bounds

\* Longest input drawn exhaustively from Alphabet.
MaxLen == 3
\* Most calls of tokenize / tokenize_filtered on one Lexer.
MaxCalls == 2
\* Most characters the scanner may put into the slice of an unmatched lexeme.
MaxErrChars == 2
\* Most diagnostics recorded by one ErrorCollector.
MaxErrors == 3
\* Largest byte offset of a Position handed to Span::combine.
MaxOffset == 2
\* Longest content of a SourceFile, in characters.
MaxText == 5
\* Largest line number handed to get_lines.
MaxArg == 4

\* ------------------------------------------------------------ characters

LowerChars ==
  << "a","b","c","d","e","f","g","h","i","j","k","l","m",
     "n","o","p","q","r","s","t","u","v","w","x","y","z" >>

UpperChars ==
  << "A","B","C","D","E","F","G","H","I","J","K","L","M",
     "N","O","P","Q","R","S","T","U","V","W","X","Y","Z" >>

Range(f) == { f[i] : i \in DOMAIN f }

Digits == { "0","1","2","3","4","5","6","7","8","9" }

Letters == Range(LowerChars) \cup Range(UpperChars)

\* (?i): a letter matches its pattern letter in either case.
ToLower(c) ==
  IF c \in Range(UpperChars)
    THEN LowerChars[CHOOSE i \in DOMAIN UpperChars : UpperChars[i] = c]
    ELSE c

\* [a-zA-Z_] and [a-zA-Z0-9_]
IsIdentStart(c) == c \in Letters \cup { "_" }
IsIdentPart(c) == c \in Letters \cup Digits \cup { "_" }

\* str::len of one character: its UTF-8 length.
ByteLen(c) == IF c = "U+00E9" THEN 2 ELSE 1

RECURSIVE StrLen(_)
\* str::len: the byte length of a slice.
StrLen(s) == IF s = << >> THEN 0 ELSE ByteLen(Head(s)) + StrLen(Tail(s))

\* s[from+1 .. to] as character indexes; the slice between two cursors.
Slice(s, from, to) == SubSeq(s, from + 1, to)

\* ------------------------------------------------------------ token rules

\* The payload-free case-insensitive rules: variant and pattern word.
Keywords ==
  << [kind |-> "Var",         word |-> <<"v","a","r">>],
     [kind |-> "Context",     word |-> <<"c","o","n","t","e","x","t">>],
     [kind |-> "Goes",        word |-> <<"g","o","e","s">>],
     [kind |-> "To",          word |-> <<"t","o">>],
     [kind |-> "Created",     word |-> <<"c","r","e","a","t","e","d">>],
     [kind |-> "By",          word |-> <<"b","y">>],
     [kind |-> "If",          word |-> <<"i","f">>],
     [kind |-> "Then",        word |-> <<"t","h","e","n">>],
     [kind |-> "When",        word |-> <<"w","h","e","n">>],
     [kind |-> "Calls",       word |-> <<"c","a","l","l","s">>],
     [kind |-> "Receives",    word |-> <<"r","e","c","e","i","v","e","s">>],
     [kind |-> "Returns",     word |-> <<"r","e","t","u","r","n","s">>],
     [kind |-> "Does",        word |-> <<"d","o","e","s">>],
     [kind |-> "Uses",        word |-> <<"u","s","e","s">>],
     [kind |-> "Is",          word |-> <<"i","s">>],
     [kind |-> "After",       word |-> <<"a","f","t","e","r">>],
     [kind |-> "Before",      word |-> <<"b","e","f","o","r","e">>],
     [kind |-> "Parallel",    word |-> <<"p","a","r","a","l","l","e","l">>],
     [kind |-> "And",         word |-> <<"a","n","d">>],
     [kind |-> "Or",          word |-> <<"o","r">>],
     [kind |-> "Retry",       word |-> <<"r","e","t","r","y">>],
     [kind |-> "Timeout",     word |-> <<"t","i","m","e","o","u","t">>],
     [kind |-> "Async",       word |-> <<"a","s","y","n","c">>],
     [kind |-> "Batch",       word |-> <<"b","a","t","c","h">>],
     [kind |-> "Loop",        word |-> <<"l","o","o","p">>],
     [kind |-> "While",       word |-> <<"w","h","i","l","e">>],
     [kind |-> "Break",       word |-> <<"b","r","e","a","k">>],
     [kind |-> "Continue",    word |-> <<"c","o","n","t","i","n","u","e">>],
     [kind |-> "Entity",      word |-> <<"e","n","t","i","t","y">>],
     [kind |-> "Service",     word |-> <<"s","e","r","v","i","c","e">>],
     [kind |-> "Endpoint",    word |-> <<"e","n","d","p","o","i","n","t">>],
     [kind |-> "Object",      word |-> <<"o","b","j","e","c","t">>],
     [kind |-> "StringType",  word |-> <<"s","t","r","i","n","g">>],
     [kind |-> "NumberType",  word |-> <<"n","u","m","b","e","r">>],
     [kind |-> "BooleanType", word |-> <<"b","o","o","l","e","a","n">>],
     [kind |-> "True",        word |-> <<"t","r","u","e">>],
     [kind |-> "False",       word |-> <<"f","a","l","s","e">>] >>

\* The #[token] rules: variant and literal text.
Punctuation ==
  << [kind |-> "LeftBrace",    word |-> <<"{">>],
     [kind |-> "RightBrace",   word |-> <<"}">>],
     [kind |-> "Colon",        word |-> <<":">>],
     [kind |-> "LeftBracket",  word |-> <<"[">>],
     [kind |-> "RightBracket", word |-> <<"]">>],
     [kind |-> "Comma",        word |-> <<",">>],
     [kind |-> "LeftParen",    word |-> <<"(">>],
     [kind |-> "RightParen",   word |-> <<")">>],
     [kind |-> "Equals",       word |-> <<"=">>],
     [kind |-> "NotEquals",    word |-> <<"!","=">>],
     [kind |-> "LessThan",     word |-> <<"<">>],
     [kind |-> "GreaterThan",  word |-> <<">">>],
     [kind |-> "LessEqual",    word |-> <<"<","=">>],
     [kind |-> "GreaterEqual", word |-> <<">","=">>] >>

KeywordKinds == { Keywords[i].kind : i \in DOMAIN Keywords }
PunctuationKinds == { Punctuation[i].kind : i \in DOMAIN Punctuation }

\* ------------------------------------------------------------ pattern matching
\* Each matcher gives the number of characters its pattern matches at cursor p
\* (p characters of s are consumed), 0 when it does not match there.

\* The character after i consumed ones; "EOF" past the end is in no class.
At(s, i) == IF i + 1 <= Len(s) THEN s[i + 1] ELSE "EOF"

RECURSIVE RunLen(_, _, _, _)
\* A greedy character-class loop: [set]* when inSet, [^set]* otherwise.
RunLen(s, p, set, inSet) ==
  IF p < Len(s) /\ ((s[p + 1] \in set) = inSet)
    THEN 1 + RunLen(s, p + 1, set, inSet)
    ELSE 0

\* WordMatch without the (?i) flag: every pattern matches its own letters only.
WordMatchExact(word, s, p, ignoreCase) ==
  IF /\ p + Len(word) <= Len(s)
     /\ \A i \in DOMAIN word : s[p + i] = word[i]
    THEN Len(word)
    ELSE 0

\* #[token("...")], and #[regex(r"(?i)...")] when ignoreCase.
WordMatch(word, s, p, ignoreCase) ==
  IF /\ p + Len(word) <= Len(s)
     /\ \A i \in DOMAIN word :
          (IF ignoreCase THEN ToLower(s[p + i]) ELSE s[p + i]) = word[i]
    THEN Len(word)
    ELSE 0

\* [a-zA-Z_][a-zA-Z0-9_]*
IdentifierMatch(s, p) ==
  IF IsIdentStart(At(s, p))
    THEN 1 + RunLen(s, p + 1, Letters \cup Digits \cup { "_" }, TRUE)
    ELSE 0

RECURSIVE StringEnd(_, _)
\* ([^"\\]|\\.)*" from cursor i: the cursor after the closing quote, 0 if none.
\* The dot matches every character but "\n".
StringEnd(s, i) ==
  LET c == At(s, i) IN
  CASE c = "EOF" -> 0
    [] c = "\"" -> i + 1
    [] c = "\\" -> IF At(s, i + 1) \in { "EOF", "\n" } THEN 0 ELSE StringEnd(s, i + 2)
    [] OTHER -> StringEnd(s, i + 1)

\* "([^"\\]|\\.)*"
QuotedStringMatch(s, p) ==
  IF At(s, p) = "\""
    THEN LET e == StringEnd(s, p + 1) IN IF e = 0 THEN 0 ELSE e - p
    ELSE 0

\* [0-9]+
NumberMatch(s, p) == RunLen(s, p, Digits, TRUE)

\* [0-9]+\.[0-9]+
FloatMatch(s, p) ==
  LET n == RunLen(s, p, Digits, TRUE)
      m == RunLen(s, p + n + 1, Digits, TRUE)
  IN IF n > 0 /\ At(s, p + n) = "." /\ m > 0 THEN n + 1 + m ELSE 0

\* DurationMatch with a unit of one letter only: "ms" is never taken whole.
DurationMatchOneLetter(s, p) ==
  LET n == RunLen(s, p, Digits, TRUE) IN
  IF n > 0 /\ At(s, p + n) \in { "s", "m", "h" } THEN n + 1 ELSE 0

\* [0-9]+s|[0-9]+ms|[0-9]+m|[0-9]+h, the longest alternative
DurationMatch(s, p) ==
  LET n == RunLen(s, p, Digits, TRUE) IN
  CASE n = 0 -> 0
    [] n > 0 /\ At(s, p + n) = "m" /\ At(s, p + n + 1) = "s" -> n + 2
    [] n > 0 /\ At(s, p + n) \in { "s", "m", "h" }
             /\ ~(At(s, p + n) = "m" /\ At(s, p + n + 1) = "s") -> n + 1
    [] OTHER -> 0

\* [ \t\f]+
WhitespaceMatch(s, p) == RunLen(s, p, { " ", "\t", "\f" }, TRUE)

\* \r?\n
NewlineMatch(s, p) ==
  CASE At(s, p) = "\n" -> 1
    [] At(s, p) = "\r" /\ At(s, p + 1) = "\n" -> 2
    [] OTHER -> 0

\* //[^\r\n]*
CommentMatch(s, p) ==
  IF At(s, p) = "/" /\ At(s, p + 1) = "/"
    THEN 2 + RunLen(s, p + 2, { "\r", "\n" }, FALSE)
    ELSE 0

RECURSIVE BlockEnd(_, _, _)
\* ([^*]|\*[^/])*\*/ from cursor i: the cursor after the match, 0 if none.
\* afterStar: the last character read was a "*" that opens either \*[^/] or
\* the closing \*/ ; a character other than "/" after it completes \*[^/].
BlockEnd(s, i, afterStar) ==
  LET c == At(s, i) IN
  CASE c = "EOF" -> 0
    [] c # "EOF" /\ afterStar /\ c = "/" -> i + 1
    [] c # "EOF" /\ afterStar /\ c # "/" -> BlockEnd(s, i + 1, FALSE)
    [] c # "EOF" /\ ~afterStar -> BlockEnd(s, i + 1, c = "*")

\* /\*([^*]|\*[^/])*\*/
BlockCommentMatch(s, p) ==
  IF At(s, p) = "/" /\ At(s, p + 1) = "*"
    THEN LET e == BlockEnd(s, p + 2, FALSE) IN IF e = 0 THEN 0 ELSE e - p
    ELSE 0

\* The rules with a pattern of their own (not a fixed word).
PatternKinds ==
  << "Identifier", "QuotedString", "Number", "Float", "Duration",
     "Whitespace", "Newline", "Comment", "BlockComment" >>

PatternMatch(kind, s, p) ==
  CASE kind = "Identifier" -> IdentifierMatch(s, p)
    [] kind = "QuotedString" -> QuotedStringMatch(s, p)
    [] kind = "Number" -> NumberMatch(s, p)
    [] kind = "Float" -> FloatMatch(s, p)
    [] kind = "Duration" -> DurationMatch(s, p)
    [] kind = "Whitespace" -> WhitespaceMatch(s, p)
    [] kind = "Newline" -> NewlineMatch(s, p)
    [] kind = "Comment" -> CommentMatch(s, p)
    [] kind = "BlockComment" -> BlockCommentMatch(s, p)

\* The rules of a table of words at cursor p: variant, matched length, and
\* that the rule outranks Identifier on a tie (a pattern of literal letters
\* has the higher priority).
WordRules(table, ignoreCase, s, p) ==
  { [kind |-> table[i].kind, len |-> WordMatch(table[i].word, s, p, ignoreCase),
     literal |-> TRUE] : i \in DOMAIN table }

\* Every rule of the Token enum at cursor p. No two rules other than a
\* keyword and Identifier match the same slice.
RuleMatches(s, p) ==
  WordRules(Keywords, TRUE, s, p)
  \cup WordRules(Punctuation, FALSE, s, p)
  \cup { [kind |-> PatternKinds[i], len |-> PatternMatch(PatternKinds[i], s, p),
          literal |-> FALSE] : i \in DOMAIN PatternKinds }

Matched(ms) == { m \in ms : m.len > 0 }
Longest(ms) == { m \in ms : \A o \in ms : o.len <= m.len }
HighestPriority(ms) == { m \in ms : \A o \in ms : o.literal => m.literal }

PickMatch(ms) ==
  IF ms = { } THEN [kind |-> "Error", len |-> 0, literal |-> FALSE]
  ELSE CHOOSE m \in ms : TRUE

\* NextMatch with the rules tried in declaration order: a keyword that matches
\* wins over a longer identifier.
NextMatchLiteralFirst(s, p) ==
  PickMatch(Longest(HighestPriority(Matched(RuleMatches(s, p)))))

\* logos::Lexer::next at cursor p: the longest match wins, a tie goes to the
\* higher priority; len = 0 when no rule matches.
NextMatch(s, p) ==
  PickMatch(HighestPriority(Longest(Matched(RuleMatches(s, p)))))

\* ------------------------------------------------------------ tokens

DigitChars == << "0","1","2","3","4","5","6","7","8","9" >>

DigitVal(c) == (CHOOSE i \in DOMAIN DigitChars : DigitChars[i] = c) - 1

RECURSIVE StripZeros(_)
\* A digit run without its leading zeros ("0" for a run of zeros): the decimal
\* rendering of the value, which stands for the value itself.
StripZeros(d) ==
  IF Len(d) > 1 /\ Head(d) = "0" THEN StripZeros(Tail(d)) ELSE d

\* i64::MAX = 9223372036854775807
I64MaxDigits ==
  << "9","2","2","3","3","7","2","0","3","6","8","5","4","7","7","5","8","0","7" >>

RECURSIVE DigitsLeq(_, _)
\* a <= b for two digit runs of the same length.
DigitsLeq(a, b) ==
  IF a = << >> THEN TRUE
  ELSE IF DigitVal(Head(a)) # DigitVal(Head(b))
    THEN DigitVal(Head(a)) < DigitVal(Head(b))
    ELSE DigitsLeq(Tail(a), Tail(b))

\* ParseI64 without the range check: every digit run comes out as Some.
ParseI64Unchecked(slice) == << "Some" >> \o StripZeros(slice)

\* slice.parse::<i64>().ok() of a digit run: Some(value), or None on overflow.
ParseI64(slice) ==
  LET d == StripZeros(slice) IN
  IF \/ Len(d) < Len(I64MaxDigits)
     \/ Len(d) = Len(I64MaxDigits) /\ DigitsLeq(d, I64MaxDigits)
    THEN << "Some" >> \o d
    ELSE << "None" >>

RECURSIVE StripTrailingZeros(_)
StripTrailingZeros(d) ==
  IF Len(d) > 1 /\ d[Len(d)] = "0"
    THEN StripTrailingZeros(SubSeq(d, 1, Len(d) - 1))
    ELSE d

\* slice.parse::<f64>().ok() of digits "." digits: always Some; the value is
\* stood for by its shortest decimal rendering (exact for the short lexemes
\* of the model).
ParseF64(slice) ==
  LET dot == CHOOSE i \in DOMAIN slice : slice[i] = "."
  IN << "Some" >> \o StripZeros(SubSeq(slice, 1, dot - 1)) \o << "." >>
       \o StripTrailingZeros(SubSeq(slice, dot + 1, Len(slice)))

\* MakeToken with the quotes left on the payload of a QuotedString.
MakeTokenKeepQuotes(kind, slice) ==
  [kind |-> kind,
   payload |->
     CASE kind \in { "Identifier", "Duration", "QuotedString" } -> slice
       [] kind = "Number" -> ParseI64(slice)
       [] kind = "Float" -> ParseF64(slice)
       [] OTHER -> << >>]

\* The Token a rule's callback builds from the matched slice.
MakeToken(kind, slice) ==
  [kind |-> kind,
   payload |->
     CASE kind \in { "Identifier", "Duration" } -> slice
       [] kind = "QuotedString" -> SubSeq(slice, 2, Len(slice) - 1)
       [] kind = "Number" -> ParseI64(slice)
       [] kind = "Float" -> ParseF64(slice)
       [] OTHER -> << >>]

\* is_whitespace with the line comment left out of the match.
is_whitespace_no_comment(token) ==
  token.kind \in { "Whitespace", "Newline", "BlockComment" }

\* Token::is_whitespace
is_whitespace(token) ==
  token.kind \in { "Whitespace", "Newline", "Comment", "BlockComment" }

\* Token::is_keyword
is_keyword(token) == token.kind \in KeywordKinds

\* ------------------------------------------------------------ positions, spans

Position(line, column, offset) ==
  [line |-> line, column |-> column, offset |-> offset]

Span(start, end) == [start |-> start, end |-> end]

\* to_miette_span with the end offset given as the length.
to_miette_span_end(span) ==
  [offset |-> span.start.offset, len |-> span.end.offset]

\* Span::to_miette_span: SourceSpan (offset, length)
to_miette_span(span) ==
  [offset |-> span.start.offset, len |-> span.end.offset - span.start.offset]

\* combine with the end chosen by the comparison of the start.
combine_min_end(self, other) ==
  Span(IF self.start.offset <= other.start.offset THEN self.start ELSE other.start,
       IF self.end.offset <= other.end.offset THEN self.end ELSE other.end)

\* Span::combine
combine(self, other) ==
  Span(IF self.start.offset <= other.start.offset THEN self.start ELSE other.start,
       IF self.end.offset >= other.end.offset THEN self.end ELSE other.end)

\* NaviLangError::syntax_error
syntax_error(message, src, span) ==
  [variant |-> "SyntaxError", message |-> message, src |-> src,
   span |-> to_miette_span(span)]

RECURSIVE EndLineColumnBytes(_, _, _)
\* EndLineColumn with the column advanced by bytes, not characters.
EndLineColumnBytes(end_line, end_column, chars) ==
  IF chars = << >> THEN [line |-> end_line, column |-> end_column]
  ELSE IF Head(chars) = "\n"
    THEN EndLineColumnBytes(end_line + 1, 1, Tail(chars))
    ELSE EndLineColumnBytes(end_line, end_column + ByteLen(Head(chars)), Tail(chars))

RECURSIVE EndLineColumn(_, _, _)
\* The loop of current_span over slice.chars().
EndLineColumn(end_line, end_column, chars) ==
  IF chars = << >> THEN [line |-> end_line, column |-> end_column]
  ELSE IF Head(chars) = "\n"
    THEN EndLineColumn(end_line + 1, 1, Tail(chars))
    ELSE EndLineColumn(end_line, end_column + 1, Tail(chars))

\* Lexer::current_span for the slice of the token being processed.
current_span(line, column, offset, slice) ==
  LET e == EndLineColumn(line, column, slice) IN
  Span(Position(line, column, offset),
       Position(e.line, e.column, offset + StrLen(slice)))

RECURSIVE update_position_chars(_, _, _, _)
\* update_position with the offset advanced by characters, not bytes.
update_position_chars(line, column, offset, slice) ==
  IF slice = << >> THEN Position(line, column, offset)
  ELSE IF Head(slice) = "\n"
    THEN update_position_chars(line + 1, 1, offset + 1, Tail(slice))
    ELSE update_position_chars(line, column + 1, offset + 1, Tail(slice))

RECURSIVE update_position_same_line(_, _, _, _)
\* update_position without the line feed case: the line never advances.
update_position_same_line(line, column, offset, slice) ==
  IF slice = << >> THEN Position(line, column, offset)
  ELSE update_position_same_line(line, column + 1, offset + ByteLen(Head(slice)),
                                 Tail(slice))

RECURSIVE update_position(_, _, _, _)
\* Lexer::update_position: line, column, offset after the slice.
update_position(line, column, offset, slice) ==
  IF slice = << >> THEN Position(line, column, offset)
  ELSE IF Head(slice) = "\n"
    THEN update_position(line + 1, 1, offset + ByteLen(Head(slice)), Tail(slice))
    ELSE update_position(line, column + 1, offset + ByteLen(Head(slice)), Tail(slice))

\* ------------------------------------------------------------ the Lexer

VARIABLES
  input,      \* Lexer.input: the source text
  lexer,      \* Lexer.lexer: the scanner's token_start and token_end cursors,
              \* in characters; its slice() is the text between them
  line,       \* Lexer.line
  column,     \* Lexer.column
  offset,     \* Lexer.offset
  errChars,   \* how many characters the scanner puts into the slice of an
              \* unmatched lexeme (at least one; the rest is the scanner's choice)
  result,     \* what the last call returned
  lastOp,     \* the last call made on the Lexer
  calls,      \* the number of calls made
  errors,     \* ErrorCollector.errors
  added,      \* the diagnostics handed to add_error, in call order
  outcome,    \* what ErrorCollector::into_result returned
  answer,     \* what the last ErrorCollector query returned
  spanA,      \* the two arguments of Span::combine
  spanB,
  combined,   \* what Span::combine returned
  content,    \* SourceFile.content
  lines,      \* SourceFile.lines
  got,        \* the last get_lines call: its arguments and what it returned
  rendered    \* the last Token::to_string call: the token, its text, and what
              \* tokenizing that text returned

lexerVars == << input, lexer, line, column, offset, errChars, result, lastOp, calls >>
collectorVars == << errors, added, outcome, answer >>
spanVars == << spanA, spanB, combined >>
readerVars == << content, lines, got >>
vars == << lexerVars, collectorVars, spanVars, readerVars, rendered >>

None == [tag |-> "None"]
Ok(value) == [tag |-> "Ok", value |-> value]
Err(error) == [tag |-> "Err", error |-> error]

Min(a, b) == IF a <= b THEN a ELSE b

\* lexer.slice()
slice(s, lx) == Slice(s, lx.token_start, lx.token_end)

\* The Lexer's own fields as one value.
LexerState(lx, ln, col, off) ==
  [lexer |-> lx, line |-> ln, column |-> col, offset |-> off]

\* Lexer::new
new(s) == LexerState([token_start |-> 0, token_end |-> 0], 1, 1, 0)

\* Lexer::current_position
current_position(L) == Position(L.line, L.column, L.offset)

\* format!("Unexpected character: '{}'", slice)
UnexpectedCharacter(sl) == << "Unexpected character: '" >> \o sl \o << "'" >>

\* What the scanner yields for match m at cursor p, and its cursors after it;
\* e characters (at most what is left) go into the slice of an unmatched lexeme.
Yield(m, s, p, e) ==
  IF m.len > 0
    THEN [ok |-> TRUE, kind |-> m.kind,
          lexer |-> [token_start |-> p, token_end |-> p + m.len]]
    ELSE [ok |-> FALSE, kind |-> "Error",
          lexer |-> [token_start |-> p, token_end |-> Min(p + e, Len(s))]]

\* self.lexer.next() from cursor p
ScannerNext(s, p, e) == Yield(NextMatch(s, p), s, p, e)

\* The Lexer after update_position has given pos.
Advanced(lx, pos) == LexerState(lx, pos.line, pos.column, pos.offset)

RECURSIVE TokenizeLoop(_, _, _, _)

\* LoopBody with the Err arm leaving the loop instead of returning the error:
\* the tokens matched so far come back as a success.
LoopBodyPartial(s, e, L, tokens, n, sl, span) ==
  IF n.ok
    THEN TokenizeLoop(s, e,
           Advanced(n.lexer, update_position(L.line, L.column, L.offset, sl)),
           Append(tokens, [token |-> MakeToken(n.kind, sl), span |-> span]))
    ELSE [ret |-> Ok(tokens), L |-> [L EXCEPT !.lexer = n.lexer]]

\* LoopBody with update_position called in the Err arm as well: the tracked
\* position moves over the unmatched slice.
LoopBodyAdvance(s, e, L, tokens, n, sl, span) ==
  IF n.ok
    THEN TokenizeLoop(s, e,
           Advanced(n.lexer, update_position(L.line, L.column, L.offset, sl)),
           Append(tokens, [token |-> MakeToken(n.kind, sl), span |-> span]))
    ELSE [ret |-> Err(syntax_error(UnexpectedCharacter(sl), s, span)),
          L |-> Advanced(n.lexer, update_position(L.line, L.column, L.offset, sl))]

\* The body of the while loop of Lexer::tokenize, for what the scanner yielded
\* (n), its slice (sl) and current_span() (span).
LoopBody(s, e, L, tokens, n, sl, span) ==
  IF n.ok
    THEN TokenizeLoop(s, e,
           Advanced(n.lexer, update_position(L.line, L.column, L.offset, sl)),
           Append(tokens, [token |-> MakeToken(n.kind, sl), span |-> span]))
    ELSE [ret |-> Err(syntax_error(UnexpectedCharacter(sl), s, span)),
          L |-> [L EXCEPT !.lexer = n.lexer]]

\* One round of the loop once the scanner has yielded n.
LoopRound(s, e, L, tokens, n) ==
  LoopBody(s, e, L, tokens, n, slice(s, n.lexer),
           current_span(L.line, L.column, L.offset, slice(s, n.lexer)))

\* The while loop of Lexer::tokenize: the value returned and the Lexer after it.
TokenizeLoop(s, e, L, tokens) ==
  IF L.lexer.token_end >= Len(s)
    THEN [ret |-> Ok(tokens),
          L |-> [L EXCEPT !.lexer = [token_start |-> Len(s), token_end |-> Len(s)]]]
    ELSE LoopRound(s, e, L, tokens, ScannerNext(s, L.lexer.token_end, e))

\* tokenize that scans from the start of the input on every call.
tokenize_restart(s, e, L) == TokenizeLoop(s, e, new(s), << >>)

\* Lexer::tokenize
tokenize(s, e, L) == TokenizeLoop(s, e, L, << >>)

\* The filter of tokenize_filtered.
FilterTokens(tokens) == SelectSeq(tokens, LAMBDA t : ~is_whitespace(t.token))

\* The rest of tokenize_filtered once tokenize has returned r.
Filtered(r) ==
  IF r.ret.tag = "Err" THEN r
  ELSE [ret |-> Ok(FilterTokens(r.ret.value)), L |-> r.L]

\* Lexer::tokenize_filtered
tokenize_filtered(s, e, L) == Filtered(tokenize(s, e, L))

\* ------------------------------------------------------------ inputs

Alphabet ==
  { "t", "O", "1", "s", "\"", " ", "\n", "/", "@", "U+00E9" }

RECURSIVE Strings(_)
\* Every text over Alphabet of at most n characters.
Strings(n) ==
  IF n = 0 THEN { << >> }
  ELSE LET shorter == Strings(n - 1) IN
       shorter \cup { Append(s, c) : s \in { x \in shorter : Len(x) = n - 1 },
                                     c \in Alphabet }

ToUpper(c) ==
  IF c \in Range(LowerChars)
    THEN UpperChars[CHOOSE i \in DOMAIN LowerChars : LowerChars[i] = c]
    ELSE c

RECURSIVE CaseMixes(_)
\* Every spelling of a word in a mixture of upper and lower case.
CaseMixes(w) ==
  IF w = << >> THEN { << >> }
  ELSE { << c >> \o r : c \in { Head(w), ToUpper(Head(w)) }, r \in CaseMixes(Tail(w)) }

KeywordSpellings == UNION { CaseMixes(Keywords[i].word) : i \in DOMAIN Keywords }

Upper(w) == [i \in DOMAIN w |-> ToUpper(w[i])]

\* Reserved words with one more identifier character before or after them.
ExtendedKeywords ==
  UNION { { k \o << c >>, << c >> \o k } :
            k \in UNION { { Keywords[i].word, Upper(Keywords[i].word) } : i \in DOMAIN Keywords },
            c \in { "s", "_", "1", "O" } }

\* "CONTEXT Test {\n  VAR User\n}"
SamplePosition ==
  <<"C","O","N","T","E","X","T"," ","T","e","s","t"," ","{","\n"," "," ","V","A","R"," ","U","s","e","r","\n","}">>

\* "VAR User @invalid"
SampleError ==
  <<"V","A","R"," ","U","s","e","r"," ","@","i","n","v","a","l","i","d">>

\* "var UserName:entity"
SampleMixedCase ==
  <<"v","a","r"," ","U","s","e","r","N","a","m","e",":","e","n","t","i","t","y">>

\* "TIMEOUT 30s"
SampleDuration ==
  <<"T","I","M","E","O","U","T"," ","3","0","s">>

\* CONTEXT "My Context"
SampleQuoted ==
  <<"C","O","N","T","E","X","T"," ","\"","M","y"," ","C","o","n","t","e","x","t","\"">>

\* a block comment over two lines, then a keyword
SampleBlock ==
  <<"/","*"," ","a","\n","b"," ","*","/"," ","t","o">>

\* a two-byte character in a string, then an unmatched character
SampleWide ==
  <<"\"","U+00E9","\""," ","@">>

\* two-byte characters in a comment and in a string over two lines
SampleWideLine ==
  <<"/","/","U+00E9","\n","\"","U+00E9","\n","\"","t","o">>

\* floats, durations, operators, an identifier, a CR LF line end and an
\* escaped quote in a string
SampleLiterals ==
  <<"0",".","5","0"," ","2","0","m","s"," ","7","h","<","=","!","=","_","x","1","\r","\n","\"","a","\\","\"","b","\"">>

\* "5m 10ms5 1.5s 007 3h2": units of one and two letters, a number right
\* after a duration, a float before a letter, leading zeros
SampleNumbers ==
  <<"5","m"," ","1","0","m","s","5"," ","1",".","5","s"," ","0","0","7"," ","3","h","2">>

\* "9223372036854775808 09223372036854775807 to": one more than i64::MAX,
\* then i64::MAX with a leading zero, then a keyword
SampleOverflow ==
  <<"9","2","2","3","3","7","2","0","3","6","8","5","4","7","7","5","8","0","8"," ","0">>
  \o I64MaxDigits \o <<" ","t","o">>

\* a string in which a backslash stands before a line feed
SampleContinued ==
  <<"t","o"," ","\"","a","\\","\n","b","\"">>

\* "/* a **/ to /* b */": two stars before the first closing slash
SampleStars ==
  <<"/","*"," ","a"," ","*","*","/"," ","t","o"," ","/","*"," ","b"," ","*","/">>

\* "/***/ to": a comment of one star
SampleStarRun ==
  <<"/","*","*","*","/"," ","t","o">>

\* "/* /* a */ to": a second opener inside a comment
SampleNested ==
  <<"/","*"," ","/","*"," ","a"," ","*","/"," ","t","o">>

\* "{}:[],()= != < > <= >=": every punctuation token
SamplePunctuation ==
  <<"{","}",":","[","]",",","(",")","="," ","!","="," ","<"," ",">"," ","<","="," ",">","=">>

Samples ==
  { SamplePosition, SampleError, SampleMixedCase, SampleDuration, SampleQuoted,
    SampleBlock, SampleWide, SampleWideLine, SampleLiterals, SampleNumbers,
    SampleOverflow, SampleContinued, SampleStars, SampleStarRun, SampleNested,
    SamplePunctuation }

Inputs == Strings(MaxLen) \cup KeywordSpellings \cup ExtendedKeywords \cup Samples

\* ------------------------------------------------------------ the Lexer's steps

CollectorIdle == errors = << >> /\ added = << >> /\ outcome = None /\ answer = None
SpanIdle ==
  /\ spanA = Span(Position(1, 1, 0), Position(1, 1, 0))
  /\ spanB = spanA
  /\ combined = None
ReaderIdle == content = << >> /\ lines = << >> /\ got = None
RenderIdle == rendered = None

\* Lexer::new(input)
Init ==
  /\ input \in Inputs
  /\ errChars \in 1 .. MaxErrChars
  /\ lexer = new(input).lexer
  /\ line = new(input).line
  /\ column = new(input).column
  /\ offset = new(input).offset
  /\ result = None
  /\ lastOp = "new"
  /\ calls = 0
  /\ CollectorIdle
  /\ SpanIdle
  /\ ReaderIdle
  /\ RenderIdle

Self == LexerState(lexer, line, column, offset)

Returned(r, op) ==
  /\ result' = r.ret
  /\ lexer' = r.L.lexer
  /\ line' = r.L.line
  /\ column' = r.L.column
  /\ offset' = r.L.offset
  /\ lastOp' = op
  /\ calls' = calls + 1
  /\ UNCHANGED << input, errChars, collectorVars, spanVars, readerVars, rendered >>

\* a call of lexer.tokenize()
Tokenize ==
  /\ calls < MaxCalls
  /\ Returned(tokenize(input, errChars, Self), "tokenize")

\* a call of lexer.tokenize_filtered()
TokenizeFiltered ==
  /\ calls < MaxCalls
  /\ Returned(tokenize_filtered(input, errChars, Self), "tokenize_filtered")

Next == Tokenize \/ TokenizeFiltered

Spec == Init /\ [][Next]_vars

LexerIdle ==
  /\ input = << >>
  /\ errChars = 1
  /\ lexer = new(input).lexer
  /\ line = new(input).line
  /\ column = new(input).column
  /\ offset = new(input).offset
  /\ result = None
  /\ lastOp = "new"
  /\ calls = 0

\* ------------------------------------------------------------ the ErrorCollector

\* ErrorCollector::new
ErrorCollector_new == << >>

\* add_error that drops a diagnostic equal to one already recorded.
add_error_dedup(errs, error) ==
  IF \E i \in DOMAIN errs : errs[i] = error THEN errs ELSE Append(errs, error)

\* ErrorCollector::add_error
add_error(errs, error) == Append(errs, error)

\* ErrorCollector::has_errors
has_errors(errs) == ~(errs = << >>)

\* ErrorCollector::error_count
error_count(errs) == Len(errs)

\* into_result with a lone diagnostic wrapped in the aggregate as well.
into_result_wrap(errs, value) ==
  IF errs = << >> THEN Ok(value)
  ELSE Err([variant |-> "MultipleErrors", errors |-> errs])

RECURSIVE Flatten(_)
Flatten(errs) ==
  IF errs = << >> THEN << >>
  ELSE (IF Head(errs).variant = "MultipleErrors"
          THEN Flatten(Head(errs).errors)
          ELSE << Head(errs) >>) \o Flatten(Tail(errs))

\* into_result with recorded aggregates spliced into the new aggregate.
into_result_flatten(errs, value) ==
  IF errs = << >> THEN Ok(value)
  ELSE IF Len(errs) = 1 THEN Err(Head(errs))
  ELSE Err([variant |-> "MultipleErrors", errors |-> Flatten(errs)])

\* ErrorCollector::into_result
into_result(errs, value) ==
  IF errs = << >> THEN Ok(value)
  ELSE IF Len(errs) = 1 THEN Err(Head(errs))
  ELSE Err([variant |-> "MultipleErrors", errors |-> errs])

\* NaviLangError values handed to add_error: any variant of the enum, the
\* aggregate included.
DiagSyntax ==
  syntax_error(UnexpectedCharacter(<< "@" >>), << "@" >>,
               Span(Position(1, 1, 0), Position(1, 2, 1)))
DiagIo == [variant |-> "IoError", source |-> "NotFound"]
DiagGeneric == [variant |-> "GenericError", source |-> "anyhow"]
DiagMultiple == [variant |-> "MultipleErrors", errors |-> << DiagIo, DiagSyntax >>]

Diagnostics == { DiagSyntax, DiagIo, DiagGeneric, DiagMultiple }

\* The values handed to into_result.
Values == { "unit", "program" }

InitCollector ==
  /\ LexerIdle
  /\ SpanIdle
  /\ ReaderIdle
  /\ RenderIdle
  /\ errors = ErrorCollector_new
  /\ added = << >>
  /\ outcome = None
  /\ answer = None

\* collector.add_error(e)
AddError ==
  /\ outcome = None
  /\ Len(errors) < MaxErrors
  /\ \E e \in Diagnostics :
       /\ errors' = add_error(errors, e)
       /\ added' = Append(added, e)
  /\ UNCHANGED << outcome, answer, lexerVars, spanVars, readerVars, rendered >>

\* collector.has_errors()
HasErrors ==
  /\ outcome = None
  /\ answer' = [op |-> "has_errors", value |-> has_errors(errors)]
  /\ UNCHANGED << errors, added, outcome, lexerVars, spanVars, readerVars, rendered >>

\* collector.error_count()
ErrorCount ==
  /\ outcome = None
  /\ answer' = [op |-> "error_count", value |-> error_count(errors)]
  /\ UNCHANGED << errors, added, outcome, lexerVars, spanVars, readerVars, rendered >>

\* collector.errors()
Errors ==
  /\ outcome = None
  /\ answer' = [op |-> "errors", value |-> errors]
  /\ UNCHANGED << errors, added, outcome, lexerVars, spanVars, readerVars, rendered >>

\* collector.into_result(v): consumes the collector; errors keeps what it
\* held when it was consumed.
IntoResult ==
  /\ outcome = None
  /\ \E v \in Values : outcome' = [value |-> v, ret |-> into_result(errors, v)]
  /\ UNCHANGED << errors, added, answer, lexerVars, spanVars, readerVars, rendered >>

NextCollector == AddError \/ HasErrors \/ ErrorCount \/ Errors \/ IntoResult

SpecCollector == InitCollector /\ [][NextCollector]_vars

\* ------------------------------------------------------------ Span::combine

Positions == { Position(l, c, o) : l \in 1 .. 2, c \in 1 .. 2, o \in 0 .. MaxOffset }

Spans == { Span(s, e) : s \in Positions, e \in Positions }

InitSpan ==
  /\ LexerIdle
  /\ CollectorIdle
  /\ ReaderIdle
  /\ RenderIdle
  /\ spanA \in Spans
  /\ spanB \in Spans
  /\ combined = None

\* a.combine(&b)
Combine ==
  /\ combined = None
  /\ combined' = Ok(combine(spanA, spanB))
  /\ UNCHANGED << spanA, spanB, lexerVars, collectorVars, readerVars, rendered >>

NextSpan == Combine

SpecSpan == InitSpan /\ [][NextSpan]_vars

\* ------------------------------------------------------------ Token::to_string

\* A word with its first letter in upper case.
Capitalized(w) == << ToUpper(Head(w)) >> \o Tail(w)

\* The place of a variant in Keywords.
KeywordIndex(kind) == CHOOSE i \in DOMAIN Keywords : Keywords[i].kind = kind

\* The arms of to_string for the payload-free case-insensitive variants: Var
\* to Continue render in upper case ("VAR"), Entity to BooleanType with a
\* capital ("Entity", "String"), True and False in lower case.
KeywordText(i) ==
  IF i <= 28 THEN Upper(Keywords[i].word)
  ELSE IF i <= 35 THEN Capitalized(Keywords[i].word)
  ELSE Keywords[i].word

\* The arms of to_string for the #[token] variants.
PunctuationText(kind) ==
  Punctuation[CHOOSE i \in DOMAIN Punctuation : Punctuation[i].kind = kind].word

\* f64::to_string of a value held as digits "." digits: a whole value renders
\* without a fraction ("1" for 1.0).
FloatText(d) ==
  IF d[Len(d)] = "0" /\ d[Len(d) - 1] = "." THEN SubSeq(d, 1, Len(d) - 2) ELSE d

\* to_string with a QuotedString rendered as its payload alone.
to_string_bare(token) ==
  CASE token.kind \in KeywordKinds -> KeywordText(KeywordIndex(token.kind))
    [] token.kind \in PunctuationKinds -> PunctuationText(token.kind)
    [] token.kind \in { "Identifier", "Duration", "QuotedString" } -> token.payload
    [] token.kind = "Number" ->
         IF Head(token.payload) = "Some" THEN Tail(token.payload)
         ELSE <<"i","n","v","a","l","i","d"," ","n","u","m","b","e","r">>
    [] token.kind = "Float" ->
         IF Head(token.payload) = "Some" THEN FloatText(Tail(token.payload))
         ELSE <<"i","n","v","a","l","i","d"," ","f","l","o","a","t">>
    [] token.kind = "Whitespace" -> <<"w","h","i","t","e","s","p","a","c","e">>
    [] token.kind = "Newline" -> <<"n","e","w","l","i","n","e">>
    [] token.kind = "Comment" -> <<"c","o","m","m","e","n","t">>
    [] token.kind = "BlockComment" -> <<"b","l","o","c","k"," ","c","o","m","m","e","n","t">>

\* Token::to_string
to_string(token) ==
  CASE token.kind \in KeywordKinds -> KeywordText(KeywordIndex(token.kind))
    [] token.kind \in PunctuationKinds -> PunctuationText(token.kind)
    [] token.kind \in { "Identifier", "Duration" } -> token.payload
    [] token.kind = "QuotedString" -> << "\"" >> \o token.payload \o << "\"" >>
    [] token.kind = "Number" ->
         IF Head(token.payload) = "Some" THEN Tail(token.payload)
         ELSE <<"i","n","v","a","l","i","d"," ","n","u","m","b","e","r">>
    [] token.kind = "Float" ->
         IF Head(token.payload) = "Some" THEN FloatText(Tail(token.payload))
         ELSE <<"i","n","v","a","l","i","d"," ","f","l","o","a","t">>
    [] token.kind = "Whitespace" -> <<"w","h","i","t","e","s","p","a","c","e">>
    [] token.kind = "Newline" -> <<"n","e","w","l","i","n","e">>
    [] token.kind = "Comment" -> <<"c","o","m","m","e","n","t">>
    [] token.kind = "BlockComment" -> <<"b","l","o","c","k"," ","c","o","m","m","e","n","t">>

\* A token, the text to_string gave for it, and what tokenize returns for
\* that text on a Lexer of its own.
Rendering(token, text, e) ==
  [token |-> token, text |-> text, again |-> tokenize(text, e, new(text)).ret]

\* token.to_string() for a token of the list tokenize returned, then
\* Lexer::new(&text).tokenize()
Render ==
  /\ result.tag = "Ok"
  /\ \E i \in DOMAIN result.value :
       rendered' = Rendering(result.value[i].token, to_string(result.value[i].token),
                             errChars)
  /\ UNCHANGED << lexerVars, collectorVars, spanVars, readerVars >>

NextRender == Tokenize \/ Render

SpecRender == Init /\ [][NextRender]_vars

\* ------------------------------------------------------------ the SourceFile

\* One item of str::lines without its line end: "\n", or "\r\n".
StripLineEnd(l) ==
  IF l # << >> /\ l[Len(l)] = "\r" THEN SubSeq(l, 1, Len(l) - 1) ELSE l

RECURSIVE SplitLines(_, _)
\* content.lines(): cur is the line read so far. A line ends at "\n"; text
\* after the last "\n" is a line of its own unless it is empty.
SplitLines(s, cur) ==
  IF s = << >> THEN (IF cur = << >> THEN << >> ELSE << cur >>)
  ELSE IF Head(s) = "\n"
    THEN << StripLineEnd(cur) >> \o SplitLines(Tail(s), << >>)
    ELSE SplitLines(Tail(s), Append(cur, Head(s)))

\* SourceFile::from_string: the lines field.
from_string(text) == SplitLines(text, << >>)

\* usize::saturating_sub
saturating_sub(a, b) == IF a >= b THEN a - b ELSE 0

Panic == [tag |-> "Panic"]

\* &v[a..b] collected: panics when a > b or b > v.len().
RangeSlice(v, a, b) ==
  IF a > b \/ b > Len(v) THEN Panic ELSE Ok(SubSeq(v, a + 1, b))

\* get_lines with end taken as exclusive: one subtracted from it as from start.
get_lines_exclusive(ls, start, end) ==
  IF saturating_sub(start, 1) >= Len(ls) \/ start > end
    THEN Ok(<< >>)
    ELSE RangeSlice(ls, saturating_sub(start, 1), Min(saturating_sub(end, 1), Len(ls)))

\* SourceFile::get_lines: start_idx = start.saturating_sub(1), end_idx = end,
\* actual_end = end_idx.min(lines.len()).
get_lines(ls, start, end) ==
  IF saturating_sub(start, 1) >= Len(ls) \/ start > end
    THEN Ok(<< >>)
    ELSE RangeSlice(ls, saturating_sub(start, 1), Min(end, Len(ls)))

TextAlphabet == { "a", "b", "\n" }

RECURSIVE Texts(_)
\* Every content over TextAlphabet of at most n characters.
Texts(n) ==
  IF n = 0 THEN { << >> }
  ELSE LET shorter == Texts(n - 1) IN
       shorter \cup { Append(s, c) : s \in { x \in shorter : Len(x) = n - 1 },
                                     c \in TextAlphabet }

\* SourceFile::from_string(content, path)
InitReader ==
  /\ LexerIdle
  /\ CollectorIdle
  /\ SpanIdle
  /\ RenderIdle
  /\ content \in Texts(MaxText)
  /\ lines = from_string(content)
  /\ got = None

\* source.get_lines(start, end)
GetLines ==
  /\ \E start \in 0 .. MaxArg, end \in 0 .. MaxArg :
       got' = [start |-> start, end |-> end, ret |-> get_lines(lines, start, end)]
  /\ UNCHANGED << content, lines, lexerVars, collectorVars, spanVars, rendered >>

NextReader == GetLines

SpecReader == InitReader /\ [][NextReader]_vars

\* ------------------------------------------------------------ reference notions
\* What the properties below compare the Lexer's results against: lexemes,
\* byte offsets and source coordinates computed from the input text alone.

RECURSIVE FirstUnmatched(_, _)
\* The first cursor, scanning from cursor p, at which no rule matches; -1 when
\* the rules match all the way to the end of the text.
FirstUnmatched(s, p) ==
  IF p >= Len(s) THEN -1
  ELSE LET n == NextMatch(s, p).len IN
       IF n = 0 THEN p ELSE FirstUnmatched(s, p + n)

RECURSIVE Lexemes(_, _)
\* The lexemes matched one after another from cursor p, up to the end of the
\* text or the first unmatched cursor.
Lexemes(s, p) ==
  IF p >= Len(s) THEN << >>
  ELSE LET n == NextMatch(s, p).len IN
       IF n = 0 THEN << >> ELSE << Slice(s, p, p + n) >> \o Lexemes(s, p + n)

RECURSIVE Concat(_)
Concat(seqs) == IF seqs = << >> THEN << >> ELSE Head(seqs) \o Concat(Tail(seqs))

\* The bytes of a text: each character as many bytes as its encoding has.
RECURSIVE Bytes(_)
Bytes(s) ==
  IF s = << >> THEN << >>
  ELSE (IF Head(s) = "U+00E9" THEN << "C3", "A9" >> ELSE << Head(s) >>) \o Bytes(Tail(s))

RECURSIVE CharsWithin(_, _, _)
\* The number of characters, after the first k, that fit into the next left bytes.
CharsWithin(s, k, left) ==
  IF k < Len(s) /\ Len(Bytes(<< s[k + 1] >>)) <= left
    THEN 1 + CharsWithin(s, k + 1, left - Len(Bytes(<< s[k + 1] >>)))
    ELSE 0

\* The number of characters that lie wholly before byte offset off.
CharsBefore(s, off) == CharsWithin(s, 0, off)

\* 1 + the number of "\n" before byte offset off.
TrueLine(s, off) ==
  1 + Cardinality({ k \in 1 .. CharsBefore(s, off) : s[k] = "\n" })

\* 1 + the number of characters between the last "\n" before byte offset off
\* (or the start of the text) and off.
TrueColumn(s, off) ==
  LET n == CharsBefore(s, off)
      nls == { k \in 1 .. n : s[k] = "\n" }
      last == IF nls = { } THEN 0 ELSE CHOOSE k \in nls : \A j \in nls : j <= k
  IN 1 + (n - last)

TruePosition(s, pos) ==
  /\ pos.line = TrueLine(s, pos.offset)
  /\ pos.column = TrueColumn(s, pos.offset)

\* The reserved word a slice spells, case-insensitively; "" when it spells none.
ReservedKind(sl) ==
  LET lower == [i \in DOMAIN sl |-> ToLower(sl[i])]
      hits == { i \in DOMAIN Keywords : Keywords[i].word = lower }
  IN IF hits = { } THEN "" ELSE Keywords[CHOOSE i \in hits : TRUE].kind

\* A call on a fresh Lexer has returned.
FirstCall == calls = 1
Succeeded == result.tag = "Ok"
Failed == result.tag = "Err"

\* ------------------------------------------------------------ properties

\* C1: tokenize is all-or-nothing. When some cursor of the scan matches no
\* rule, the call returns Err(SyntaxError) and no token list at all, and the
\* error's src is the complete input text.
C1_AllOrNothing ==
  (FirstCall /\ FirstUnmatched(input, 0) >= 0) =>
    /\ DOMAIN result = { "tag", "error" }
    /\ result.tag = "Err"
    /\ result.error.variant = "SyntaxError"
    /\ result.error.src = input

\* C1 happens: tokens were matched before the unmatched cursor, and the call
\* failed with the whole text in the error.
C1_Witness ==
  /\ FirstCall
  /\ lastOp = "tokenize"
  /\ input = SampleError
  /\ FirstUnmatched(input, 0) = 9
  /\ Failed
  /\ result.error.src = SampleError

\* C2: a failed tokenize points at the first unmatched slice: the span's
\* offset is the byte length of all lexemes matched before it, the span's
\* length is the byte length of the slice, and the message is
\* "Unexpected character: '<slice>'".
C2_ErrorPointsAtSlice ==
  (FirstCall /\ Failed) =>
    LET p == FirstUnmatched(input, 0)
        unmatched == SubSeq(input, p + 1, Min(p + errChars, Len(input)))
    IN /\ p >= 0
       /\ result.error.span.offset = Len(Bytes(Concat(Lexemes(input, 0))))
       /\ result.error.span.len = Len(Bytes(unmatched))
       /\ result.error.message = << "Unexpected character: '" >> \o unmatched \o << "'" >>

\* C2 happens: the unmatched character follows a two-byte character.
C2_Witness ==
  /\ FirstCall
  /\ input = SampleWide
  /\ Failed
  /\ result.error.span = [offset |-> 5, len |-> 1]
  /\ result.error.message = << "Unexpected character: '", "@", "'" >>

RECURSIVE WithoutSentinels(_)
\* A token list with every Whitespace, Newline, Comment and BlockComment
\* token deleted, the rest in place.
WithoutSentinels(tokens) ==
  IF tokens = << >> THEN << >>
  ELSE IF Head(tokens).token.kind \in { "Whitespace", "Newline", "Comment", "BlockComment" }
    THEN WithoutSentinels(Tail(tokens))
    ELSE << Head(tokens) >> \o WithoutSentinels(Tail(tokens))

\* C3: tokenize_filtered returns tokenize's result with the Whitespace,
\* Newline, Comment and BlockComment tokens deleted and every other token
\* kept, span and order unchanged; it fails with tokenize's error exactly
\* when tokenize fails.
C3_FilteredIsSubsequence ==
  (FirstCall /\ lastOp = "tokenize_filtered") =>
    LET full == tokenize(input, errChars, new(input)).ret IN
    IF full.tag = "Err"
      THEN result = full
      ELSE result = Ok(WithoutSentinels(full.value))

\* C3 happens: a comment and a blank are dropped, the keyword after them kept.
C3_Witness ==
  /\ FirstCall
  /\ lastOp = "tokenize_filtered"
  /\ input = SampleBlock
  /\ Len(tokenize(input, errChars, new(input)).ret.value) = 3
  /\ Succeeded
  /\ Len(result.value) = 1
  /\ result.value[1].token.kind = "To"
  /\ result.value[1].span.start = Position(2, 6, 10)

\* C4: a reserved word alone, in any mixture of upper and lower case, yields
\* exactly one token: its payload-free keyword variant, never an Identifier.
C4_KeywordAnyCase ==
  (FirstCall /\ input \in KeywordSpellings) =>
    /\ Succeeded
    /\ Len(result.value) = 1
    /\ result.value[1].token = [kind |-> ReservedKind(input), payload |-> << >>]
    /\ result.value[1].token.kind \in KeywordKinds

\* C4 happens: a mixed-case spelling came out as its keyword.
C4_Witness ==
  /\ FirstCall
  /\ input = << "c", "O", "n", "T", "e", "X", "t" >>
  /\ Succeeded
  /\ result.value[1].token.kind = "Context"

\* The characters of the text that lie in a span's byte range.
LexemeOf(s, span) ==
  SubSeq(s, CharsBefore(s, span.start.offset) + 1, CharsBefore(s, span.end.offset))

\* C5: a keyword never pre-empts a longer identifier. A token whose lexeme
\* starts with a letter or "_" covers a maximal run of letters, digits and
\* "_"; it is a keyword variant only if the whole lexeme spells a reserved
\* word, and otherwise one Identifier whose payload is the lexeme verbatim.
C5_KeywordNeedsWholeSlice ==
  (FirstCall /\ Succeeded) =>
    \A i \in DOMAIN result.value :
      LET t == result.value[i]
          lx == LexemeOf(input, t.span)
          after == At(input, CharsBefore(input, t.span.end.offset))
      IN (lx # << >> /\ IsIdentStart(lx[1])) =>
           /\ \A k \in DOMAIN lx : IsIdentPart(lx[k])
           /\ ~IsIdentPart(after)
           /\ IF ReservedKind(lx) # ""
                THEN t.token = [kind |-> ReservedKind(lx), payload |-> << >>]
                ELSE t.token = [kind |-> "Identifier", payload |-> lx]

\* C5 happens: a reserved word followed by one more letter is one Identifier.
C5_Witness ==
  /\ FirstCall
  /\ input = << "t", "O", "s" >>
  /\ Succeeded
  /\ Len(result.value) = 1
  /\ result.value[1].token = [kind |-> "Identifier", payload |-> << "t", "O", "s" >>]

\* C6: both ends of every token's span carry the true coordinates of their
\* byte offset: line = 1 + the "\n" before it, column = 1 + the characters
\* since the last "\n"; also at the end of a lexeme that holds newlines; and
\* VAR in "CONTEXT Test {\n  VAR User\n}" starts at line 2, column 3.
C6_TrueCoordinates ==
  (FirstCall /\ Succeeded) =>
    /\ \A i \in DOMAIN result.value :
         /\ TruePosition(input, result.value[i].span.start)
         /\ TruePosition(input, result.value[i].span.end)
    /\ input = SamplePosition =>
         \A i \in DOMAIN result.value :
           result.value[i].token.kind = "Var" =>
             /\ result.value[i].span.start.line = 2
             /\ result.value[i].span.start.column = 3

\* C6 happens: a string with a two-byte character runs over a line end, after
\* a comment with a two-byte character.
C6_Witness ==
  /\ FirstCall
  /\ lastOp = "tokenize"
  /\ input = SampleWideLine
  /\ Succeeded
  /\ result.value[3].token.kind = "QuotedString"
  /\ result.value[3].span = Span(Position(2, 1, 5), Position(3, 2, 10))

\* C7: every span is half-open in bytes: end.offset - start.offset is the
\* byte length of the token's lexeme, the input bytes in [start.offset,
\* end.offset) are that lexeme, and to_miette_span gives (start.offset, that
\* byte length).
C7_HalfOpenByteSpan ==
  (FirstCall /\ lastOp = "tokenize" /\ Succeeded) =>
    LET lex == Lexemes(input, 0) IN
    /\ Len(result.value) = Len(lex)
    /\ \A i \in DOMAIN result.value :
         LET span == result.value[i].span IN
         /\ span.end.offset - span.start.offset = Len(Bytes(lex[i]))
         /\ SubSeq(Bytes(input), span.start.offset + 1, span.end.offset) = Bytes(lex[i])
         /\ to_miette_span(span) = [offset |-> span.start.offset, len |-> Len(Bytes(lex[i]))]

\* C7 happens: a lexeme of four characters and five bytes, at byte 5.
C7_Witness ==
  /\ FirstCall
  /\ lastOp = "tokenize"
  /\ input = SampleWideLine
  /\ Succeeded
  /\ Len(Lexemes(input, 0)[3]) = 4
  /\ to_miette_span(result.value[3].span) = [offset |-> 5, len |-> 5]

\* C8: into_result(v) returns Ok(v) when nothing was recorded, Err of the
\* one recorded diagnostic itself when one was, and Err(MultipleErrors) with
\* all recorded diagnostics in insertion order when two or more were.
C8_IntoResult ==
  outcome # None =>
    /\ Len(added) = 0 => outcome.ret = Ok(outcome.value)
    /\ Len(added) = 1 => outcome.ret = Err(added[1])
    /\ Len(added) >= 2 =>
         outcome.ret = Err([variant |-> "MultipleErrors", errors |-> added])

\* C8 happens: two diagnostics were recorded and came back in order.
C8_Witness ==
  /\ outcome # None
  /\ added = << DiagIo, DiagSyntax >>
  /\ outcome.ret.tag = "Err"
  /\ outcome.ret.error.variant = "MultipleErrors"
  /\ outcome.ret.error.errors = << DiagIo, DiagSyntax >>

C10_Combine ==
  combined # None =>
    LET r == combined.value IN
    /\ r.start.offset = Min(spanA.start.offset, spanB.start.offset)
    /\ r.end.offset = -Min(-spanA.end.offset, -spanB.end.offset)
    /\ r.start \in { spanA.start, spanB.start }
    /\ r.end \in { spanA.end, spanB.end }

\* C10 happens: two disjoint spans on different lines, the later one first.
C10_Witness ==
  /\ combined # None
  /\ spanA = Span(Position(2, 1, 2), Position(2, 2, 2))
  /\ spanB = Span(Position(1, 1, 0), Position(1, 2, 1))
  /\ combined.value = Span(Position(1, 1, 0), Position(2, 2, 2))

\* The lines of a file whose 1-indexed line number lies in a .. b, in order.
LinesNumbered(ls, a, b) ==
  LET ks == { k \in 1 .. Len(ls) : a <= k /\ k <= b }
  IN [i \in 1 .. Cardinality(ks) |->
        ls[CHOOSE k \in ks : Cardinality({ j \in ks : j < k }) = i - 1]]

\* C11: get_lines(start, end) is 1-indexed and inclusive. For a file of n
\* lines it returns the lines numbered start through min(end, n), in order,
\* when start <= end and start <= n; it returns the empty sequence when
\* start > end or start > n; and it panics for no pair of arguments.
C11_GetLines ==
  got # None =>
    LET n == Len(lines) IN
    /\ got.ret.tag = "Ok"
    /\ (got.start <= got.end /\ got.start <= n) =>
         got.ret.value = LinesNumbered(lines, got.start, Min(got.end, n))
    /\ (got.start > got.end \/ got.start > n) => got.ret.value = << >>

\* C11 happens: a range that runs past the end of a three-line file is
\* clamped to its last line.
C11_Witness ==
  /\ content = << "a", "\n", "b", "\n", "a" >>
  /\ got # None
  /\ got.start = 2
  /\ got.end = 4
  /\ got.ret = Ok(<< << "b" >>, << "a" >> >>)

\* The tokens of a successful tokenize() on a fresh Lexer.
TokenizedAll == FirstCall /\ lastOp = "tokenize" /\ Succeeded

\* C12: numeric literals are resolved by the longest match. A token whose
\* lexeme starts with a digit starts a digit run (no digit stands before it)
\* and is: one Duration carrying the raw text digits+"ms" when "ms" follows
\* the run; one Duration carrying digits+unit when s, m or h follows it; one
\* Float over digits "." digits when "." and a digit follow it; and otherwise
\* one Number over exactly the run.
C12_NumericLongestMatch ==
  TokenizedAll =>
    \A i \in DOMAIN result.value :
      LET t == result.value[i]
          p == CharsBefore(input, t.span.start.offset)
          q == CharsBefore(input, t.span.end.offset)
          n == RunLen(input, p, Digits, TRUE)
      IN n > 0 =>
           /\ (p > 0 => input[p] \notin Digits)
           /\ CASE At(input, p + n) = "m" /\ At(input, p + n + 1) = "s" ->
                     /\ q = p + n + 2
                     /\ t.token = [kind |-> "Duration", payload |-> SubSeq(input, p + 1, q)]
                [] At(input, p + n) \in { "s", "m", "h" }
                     /\ ~(At(input, p + n) = "m" /\ At(input, p + n + 1) = "s") ->
                     /\ q = p + n + 1
                     /\ t.token = [kind |-> "Duration", payload |-> SubSeq(input, p + 1, q)]
                [] At(input, p + n) = "." /\ At(input, p + n + 1) \in Digits ->
                     /\ q = p + n + 1 + RunLen(input, p + n + 1, Digits, TRUE)
                     /\ t.token.kind = "Float"
                [] OTHER ->
                     /\ q = p + n
                     /\ t.token.kind = "Number"

\* C12 happens: digits+"ms" right before a digit is one Duration, then a Number.
C12_Witness ==
  /\ TokenizedAll
  /\ input = SampleNumbers
  /\ result.value[3].token = [kind |-> "Duration", payload |-> << "1", "0", "m", "s" >>]
  /\ result.value[4].token = [kind |-> "Number", payload |-> << "Some", "5" >>]
  /\ result.value[6].token.kind = "Float"
  /\ result.value[7].token = [kind |-> "Identifier", payload |-> << "s" >>]

\* The value of a digit run is above i64::MAX: without its leading zeros it
\* has more digits, or as many and a larger digit at the first difference.
AboveI64Max(d) ==
  LET k == IF \E j \in DOMAIN d : d[j] # "0"
             THEN CHOOSE j \in DOMAIN d : d[j] # "0" /\ \A h \in 1 .. j - 1 : d[h] = "0"
             ELSE Len(d)
      v == SubSeq(d, k, Len(d))
  IN \/ Len(v) > 19
     \/ /\ Len(v) = 19
        /\ \E j \in 1 .. 19 :
             /\ \A h \in 1 .. j - 1 : v[h] = I64MaxDigits[h]
             /\ DigitVal(v[j]) > DigitVal(I64MaxDigits[j])

\* The decimal rendering of the value of a digit run.
ValueOf(d) ==
  IF \A j \in DOMAIN d : d[j] = "0" THEN << "0" >>
  ELSE SubSeq(d, CHOOSE j \in DOMAIN d : d[j] # "0" /\ \A h \in 1 .. j - 1 : d[h] = "0", Len(d))

\* C13: a digit run too large for i64 does not abort the scan. When every
\* cursor of the input matches a rule, tokenize succeeds with one token per
\* lexeme; each Number token spans its whole digit run and carries
\* Number(None) when the run's value is above i64::MAX and Number(Some(value))
\* when it fits.
C13_OverflowIsNone ==
  (FirstCall /\ lastOp = "tokenize" /\ FirstUnmatched(input, 0) = -1) =>
    /\ Succeeded
    /\ Len(result.value) = Len(Lexemes(input, 0))
    /\ \A i \in DOMAIN result.value :
         LET t == result.value[i]
             lx == Lexemes(input, 0)[i]
         IN (\A k \in DOMAIN lx : lx[k] \in Digits) =>
              /\ t.token.kind = "Number"
              /\ t.span.end.offset - t.span.start.offset = Len(lx)
              /\ t.token.payload =
                   IF AboveI64Max(lx) THEN << "None" >> ELSE << "Some" >> \o ValueOf(lx)

\* C13 happens: i64::MAX + 1 came out as Number(None) over its 19 digits,
\* and the number and the keyword after it were tokenized.
C13_Witness ==
  /\ TokenizedAll
  /\ input = SampleOverflow
  /\ Len(result.value) = 5
  /\ result.value[1].token = [kind |-> "Number", payload |-> << "None" >>]
  /\ result.value[1].span = Span(Position(1, 1, 0), Position(1, 20, 19))
  /\ result.value[3].token = [kind |-> "Number", payload |-> << "Some" >> \o I64MaxDigits]
  /\ result.value[5].token.kind = "To"

RECURSIVE QuotedLexemeEnd(_, _)
\* The cursor after the closing quote of a quoted-string lexeme whose text
\* after the opening quote starts at cursor i: a run of characters other than
\* quote and backslash and of pairs of a backslash and one character, then a
\* quote; 0 when there is no such closing quote.
QuotedLexemeEnd(s, i) ==
  IF i >= Len(s) THEN 0
  ELSE IF s[i + 1] = "\"" THEN i + 1
  ELSE IF s[i + 1] = "\\"
    THEN (IF i + 1 >= Len(s) THEN 0 ELSE QuotedLexemeEnd(s, i + 2))
    ELSE QuotedLexemeEnd(s, i + 1)

\* C14 as claimed: a quoted-string lexeme yields one QuotedString token whose payload
\* is the lexeme without its first and last quote, backslash sequences left
\* as they are; an escaped quote does not end it; a quote with no closing
\* quote makes tokenize fail. So a token that starts at a quote is the
\* QuotedString of the lexeme that starts there, and tokenize never fails at
\* a quote that starts such a lexeme.
C14_QuotedString ==
  (FirstCall /\ lastOp = "tokenize") =>
    /\ Succeeded =>
         \A i \in DOMAIN result.value :
           LET t == result.value[i]
               p == CharsBefore(input, t.span.start.offset)
               q == CharsBefore(input, t.span.end.offset)
           IN At(input, p) = "\"" =>
                /\ QuotedLexemeEnd(input, p + 1) = q
                /\ t.token = [kind |-> "QuotedString", payload |-> SubSeq(input, p + 2, q - 1)]
    /\ Failed =>
         LET p == FirstUnmatched(input, 0) IN
         ~(At(input, p) = "\"" /\ QuotedLexemeEnd(input, p + 1) # 0)

RECURSIVE QuotedLexemeEndSameLine(_, _)
\* QuotedLexemeEnd with the pairs being a backslash and one character other
\* than a line feed.
QuotedLexemeEndSameLine(s, i) ==
  IF i >= Len(s) THEN 0
  ELSE IF s[i + 1] = "\"" THEN i + 1
  ELSE IF s[i + 1] = "\\"
    THEN (IF i + 1 >= Len(s) \/ s[i + 2] = "\n" THEN 0
          ELSE QuotedLexemeEndSameLine(s, i + 2))
    ELSE QuotedLexemeEndSameLine(s, i + 1)

\* C14 as amended: the pairs inside a quoted-string lexeme are a backslash
\* and one character other than a line feed. A token that starts at a quote
\* is the QuotedString of the lexeme that starts there, its payload the
\* lexeme without its first and last quote and with every backslash sequence
\* as written; tokenize never fails at a quote that starts such a lexeme,
\* and fails when the first unmatched text is a quote that starts none.
C14_QuotedStringSameLine ==
  (FirstCall /\ lastOp = "tokenize") =>
    /\ Succeeded =>
         \A i \in DOMAIN result.value :
           LET t == result.value[i]
               p == CharsBefore(input, t.span.start.offset)
               q == CharsBefore(input, t.span.end.offset)
           IN At(input, p) = "\"" =>
                /\ QuotedLexemeEndSameLine(input, p + 1) = q
                /\ t.token = [kind |-> "QuotedString", payload |-> SubSeq(input, p + 2, q - 1)]
    /\ Failed =>
         LET p == FirstUnmatched(input, 0) IN
         ~(At(input, p) = "\"" /\ QuotedLexemeEndSameLine(input, p + 1) # 0)

\* C14 happens: a string with an escaped quote inside is one token, the
\* backslash and the quote both in its payload.
C14_Witness ==
  /\ TokenizedAll
  /\ input = SampleLiterals
  /\ result.value[Len(result.value)].token =
       [kind |-> "QuotedString", payload |-> << "a", "\\", "\"", "b" >>]
  /\ result.value[Len(result.value)].span.end.offset
       - result.value[Len(result.value)].span.start.offset = 6

RECURSIVE FirstClose(_, _)
\* The cursor after the first "*/" that starts at cursor i or later; 0 when
\* there is none.
FirstClose(s, i) ==
  IF i + 2 > Len(s) THEN 0
  ELSE IF s[i + 1] = "*" /\ s[i + 2] = "/" THEN i + 2
  ELSE FirstClose(s, i + 1)

\* C15: block comments are non-greedy and do not nest. A token that starts
\* at "/*" is the BlockComment that ends at the first "*/" after that "/*",
\* whatever lies in between, and the text after it is tokenized on its own;
\* tokenize never fails at a "/*" that some "*/" follows.
C15_BlockCommentFirstClose ==
  (FirstCall /\ lastOp = "tokenize") =>
    /\ Succeeded =>
         \A i \in DOMAIN result.value :
           LET t == result.value[i]
               p == CharsBefore(input, t.span.start.offset)
               q == CharsBefore(input, t.span.end.offset)
           IN (At(input, p) = "/" /\ At(input, p + 1) = "*") =>
                /\ FirstClose(input, p + 2) # 0 => FirstClose(input, p + 2) = q
                /\ FirstClose(input, p + 2) # 0 => t.token.kind = "BlockComment"
    /\ Failed =>
         LET p == FirstUnmatched(input, 0) IN
         ~(At(input, p) = "/" /\ At(input, p + 1) = "*" /\ FirstClose(input, p + 2) # 0)

\* C16: a query answers for the diagnostics added so far and changes nothing.
\* In every step other than add_error and into_result, that is, every step in
\* which has_errors, error_count or errors returns, the
\* collector holds the n diagnostics handed to add_error, in call order, before
\* and after the step; error_count returns n, has_errors returns n > 0, and
\* errors returns those diagnostics in that order.
C16_Queries ==
  [][ (added' = added /\ outcome' = outcome) =>
        /\ errors = added
        /\ errors' = errors
        /\ answer'.op = "error_count" => answer'.value = Len(added)
        /\ answer'.op = "has_errors" => answer'.value = (Len(added) > 0)
        /\ answer'.op = "errors" => answer'.value = added ]_vars

\* C16 happens: after the same diagnostic was added twice and another one
\* after it, error_count returned 3.
C16_Witness ==
  /\ added = << DiagIo, DiagIo, DiagSyntax >>
  /\ errors = added
  /\ DOMAIN answer = { "op", "value" }
  /\ answer.op = "error_count"
  /\ answer.value = 3

\* C17: on success the spans tile the input in source order. The first
\* token starts at line 1, column 1, offset 0; every later token starts at
\* the Position at which the one before it ends; the last token ends at the
\* byte length of the input; start offsets increase strictly; and the
\* lexemes the spans cover, put together, are the input.
C17_SpansTile ==
  TokenizedAll =>
    LET v == result.value IN
    /\ input # << >> => v # << >>
    /\ v # << >> => v[1].span.start = Position(1, 1, 0)
    /\ \A i \in 2 .. Len(v) :
         /\ v[i].span.start = v[i - 1].span.end
         /\ v[i].span.start.offset > v[i - 1].span.start.offset
    /\ v # << >> => v[Len(v)].span.end.offset = Len(Bytes(input))
    /\ Concat([i \in DOMAIN v |-> LexemeOf(input, v[i].span)]) = input

\* C17 happens: four tokens over three lines and twelve bytes, with two-byte
\* characters, each starting where the one before it ends.
C17_Witness ==
  /\ TokenizedAll
  /\ input = SampleWideLine
  /\ Len(result.value) = 4
  /\ result.value[3].span.end = Position(3, 2, 10)
  /\ result.value[4].span = Span(Position(3, 2, 10), Position(3, 4, 12))

AfterUnmatched(s, p, e) == Min(p + e, Len(s))

\* C19: a failed tokenize leaves the tracked position at the start of the
\* error span, which is the true position of the unmatched slice, while the
\* scanner's cursor stands after the slice. The spans of the tokens of a
\* further tokenize on the same Lexer, and the span of its error if it
\* fails again, start before the true byte offset of their text by the byte
\* length of the unmatched slice.
C19_PositionAfterFailure ==
  LET p == FirstUnmatched(input, 0)
      c == AfterUnmatched(input, p, errChars)
      shift == Len(Bytes(SubSeq(input, p + 1, c)))
      lex == Lexemes(input, c)
      TrueStart(i) == Len(Bytes(SubSeq(input, 1, c))) + Len(Bytes(Concat(SubSeq(lex, 1, i - 1))))
  IN /\ (FirstCall /\ Failed) =>
          /\ current_position(Self).offset = result.error.span.offset
          /\ current_position(Self).offset = Len(Bytes(SubSeq(input, 1, p)))
          /\ TruePosition(input, current_position(Self))
          /\ lexer.token_end = c
     /\ (calls = 2 /\ lastOp = "tokenize" /\ p >= 0) =>
          /\ Succeeded =>
               /\ Len(result.value) = Len(lex)
               /\ \A i \in DOMAIN result.value :
                    result.value[i].span.start.offset = TrueStart(i) - shift
          /\ Failed => result.error.span.offset = TrueStart(Len(lex) + 1) - shift

\* C19 happens: after the failure at "@" (byte 9) the identifier that
\* starts at byte 10 is reported at byte 9.
C19_Witness ==
  /\ calls = 2
  /\ lastOp = "tokenize"
  /\ input = SampleError
  /\ errChars = 1
  /\ Succeeded
  /\ result.value[1].token = [kind |-> "Identifier", payload |-> SubSeq(SampleError, 11, 17)]
  /\ result.value[1].span.start.offset = 9

\* The tokens C20 speaks of: keywords, type annotations, booleans,
\* punctuation, identifiers that spell no reserved word, durations, quoted
\* strings, and numbers with a payload.
RoundTrips(token) ==
  \/ token.kind \in KeywordKinds \cup PunctuationKinds \cup { "Duration", "QuotedString" }
  \/ token.kind = "Identifier" /\ ReservedKind(token.payload) = ""
  \/ token.kind = "Number" /\ Head(token.payload) = "Some"

\* C20: rendering round-trips through the lexer. For every such token that
\* tokenize produced, tokenizing the text to_string gives for it succeeds
\* with exactly one token, equal to it.
C20_RenderRoundTrip ==
  (rendered # None /\ RoundTrips(rendered.token)) =>
    /\ rendered.again.tag = "Ok"
    /\ Len(rendered.again.value) = 1
    /\ rendered.again.value[1].token = rendered.token

\* C20 happens: a string over two lines with a two-byte character came back
\* from its rendering, quotes and all.
C20_Witness ==
  /\ rendered # None
  /\ input = SampleWideLine
  /\ rendered.token = [kind |-> "QuotedString", payload |-> << "U+00E9", "\n" >>]
  /\ rendered.text = << "\"", "U+00E9", "\n", "\"" >>
  /\ rendered.again.tag = "Ok"
  /\ rendered.again.value[1].token = rendered.token

====
